---- MODULE Spec2Model ----
(***************************************************************************)
(* A model of shellody's Shell (src/src/shellody/shell.py): the command    *)
(* registry (register_handler), the read-dispatch loop (Shell.run) and     *)
(* the command-name completion of ShellCompleter.                          *)
(*                                                                         *)
(* Python values are modelled as follows.                                  *)
(*   - a dict is a record [keys, val]: keys is the insertion order that    *)
(*     iteration follows, val the mapping;                                 *)
(*   - an input line is a sequence of atoms, each a word or " ";           *)
(*   - an argparse parser is the sequence of positional arguments added    *)
(*     to it (every sub-parser also has -h, line 186);                     *)
(*   - an exception is named by its class.                                 *)
(* argparse and prompt_toolkit are libraries; what Shell asks of them is   *)
(* modelled after CPython 3.11's argparse and prompt_toolkit 3.            *)
(***************************************************************************)
EXTENDS Integers, Sequences, FiniteSets, TLC

\* ------------------------------------------------------------- bounds

\* register_handler calls that add a sub-parser, made by the integrator after
\* construction
MaxRegs == 2
\* atoms (words and single spaces) of a submitted line
MaxLineLen == 4

\* ------------------------------------------------------- Python dicts

EmptyDict == [keys |-> <<>>, val |-> [x \in {} |-> x]]

Has(d, k) == k \in DOMAIN d.val

Get(d, k) == d.val[k]

\* d[k] = v: a new key goes last, an existing key keeps its place
Put(d, k, v) ==
  [keys |-> IF Has(d, k) THEN d.keys ELSE Append(d.keys, k),
   val  |-> [x \in (DOMAIN d.val) \cup {k} |-> IF x = k THEN v ELSE d.val[x]]]

\* ------------------------------------------------- names and handlers

\* BuiltinAction (lines 70-72)
HELP == "help"
EXIT == "exit"

BuiltinNames == {HELP, EXIT}

\* the names the integrator registers commands under
UserNames == {"greet", "grep"}

\* the integrator's CommandHandler objects
UserHandlers == {"h1", "h2"}

\* the characters of a name, a = 1 .. z = 26
Chars(s) ==
  CASE s = "exit"  -> <<5, 24, 9, 20>>
    [] s = "greet" -> <<7, 18, 5, 5, 20>>
    [] s = "grep"  -> <<7, 18, 5, 16>>
    [] s = "help"  -> <<8, 5, 12, 16>>

\* ------------------------------------------------------ argument sets

\* argument_set = None, the default of register_handler (line 181)
NoneArgs == [given |-> FALSE, args |-> <<>>]

\* argument_set = {}
EmptyArgs == [given |-> TRUE, args |-> <<>>]

\* one required positional, {'name': dict(help=...)}
NameArgs == [given |-> TRUE, args |-> <<[name |-> "name", nargs |-> "one"]>>]

\* HelpAction.ARG_SPEC (lines 239-244): one optional positional
HelpArgSpec == [given |-> TRUE, args |-> <<[name |-> "action", nargs |-> "?"]>>]

\* ExitAction.ARG_SPEC (line 265)
ExitArgSpec == EmptyArgs

\* a malformed argument set: one argument whose description add_argument
\* rejects, {'name': dict(nargs=...)} with an arity that is none
BadArgs == [given |-> TRUE, args |-> <<[name |-> "name", nargs |-> "bad"]>>]

ArgumentSets == {NoneArgs, EmptyArgs, NameArgs, BadArgs}

\* `if argument_set:` (line 190)
Truthy(argument_set) == argument_set.given /\ argument_set.args # <<>>

\* ----------------------------------------------------------- state

VARIABLES
  conflict_raises,  \* the argparse of this build rejects a second add_parser of a name
  handler_map,      \* Shell.handler_map: name -> CommandHandler
  subparser_map,    \* Shell.subparser_map: name -> sub-parser
  name_parser_map,  \* Shell.subparsers: name -> the sub-parser parse_args uses
  choices_actions,  \* Shell.subparsers: the command list print_help shows
  description,      \* ShellCompleter.description: name -> ArgumentCompleter
  nested,           \* ShellCompleter.nested: the options of the NestedCompleter
  pc,               \* "idle": run waits in prompt(); "terminated": run has ended
  op,               \* the operation that acted last, "none" once control is back
  raised_before,    \* a handler raised in an earlier iteration of this session
  reg_call,         \* the last register_handler call and whether it raised
  key,              \* the key that made prompt() return: "enter" or "ctrl_c"
  text,             \* the line prompt() returned to the last iteration of run
  command_spec,     \* the tokens it was split into (line 208)
  calls,            \* the handle() calls of the last iteration: <<[handler, args]>>
  outcome,          \* how that handle(), or the last get_completions(), ended
  report,           \* what the last iteration reported
  printed,          \* the result the last iteration printed
  partial,          \* the text of the last completion request
  candidates        \* the completions it produced, in order

registry == <<handler_map, subparser_map, name_parser_map, choices_actions,
              description, nested>>

observed == <<reg_call, key, text, command_spec, calls, outcome, report, printed,
              partial, candidates>>

vars == <<conflict_raises, registry, pc, op, raised_before, observed>>

\* ---------------------------------------------------- register_handler

\* the registry as one value
Registry(hm, sm, npm, ca, de, ne) ==
  [handler_map |-> hm, subparser_map |-> sm, name_parser_map |-> npm,
   choices_actions |-> ca, description |-> de, nested |-> ne, raised |-> "None"]

\* Shell.__init__ before register_builtin_handlers (lines 103-112)
NewRegistry ==
  Registry(EmptyDict, EmptyDict, EmptyDict, <<>>, EmptyDict, EmptyDict)

\* NestedCompleter.from_nested_dict: the options are the dict's items, in order
FromNestedDict(data) == [keys |-> data.keys, val |-> data.val]

\* ShellCompleter.add_completer
AddCompleter(reg, name, arg_comp) ==
  LET d == Put(reg.description, name, arg_comp)
  IN  [reg EXCEPT !.description = d, !.nested = FromNestedDict(d)]

\* arguments.add_parser_arguments(parser, argument_set): every argument of the
\* set is added to the parser
AddParserArguments(parser, argument_set) ==
  [parser EXCEPT !.args = parser.args \o argument_set.args]

\* arguments.add_parser_arguments fails on a malformed argument set, at its
\* first malformed argument
AddParserArgumentsRaises(argument_set) ==
  \E i \in 1..Len(argument_set.args) : argument_set.args[i].nargs = "bad"

\* ArgumentCompleter(argument_set, Shell.HandlerValueCompleter(handler))
ArgumentCompleter(argument_set, handler) ==
  [args |-> argument_set.args, handler |-> handler]

\* subparsers.add_parser(name, add_help=True, help=help_desc, ...): argparse
\* 3.11 and later raise ArgumentError for a name already in the map; earlier
\* ones list the name once more and map it to the new parser
AddParserRaises(reg, name, conflict) ==
  conflict /\ Has(reg.name_parser_map, name)

\* the new sub-parser: no arguments yet
NewParser == [args |-> <<>>]

AddParser(reg, name) ==
  [reg EXCEPT !.choices_actions = Append(reg.choices_actions, name),
              !.name_parser_map = Put(reg.name_parser_map, name, NewParser)]

\* lines 190-195
AddArguments(reg, name, handler, argument_set) ==
  IF Truthy(argument_set)
  THEN LET parser == AddParserArguments(NewParser, argument_set)
           r1     == [reg EXCEPT !.name_parser_map =
                                    Put(reg.name_parser_map, name, parser)]
       IN  AddCompleter(r1, name, ArgumentCompleter(argument_set, handler))
  ELSE reg

\* lines 197-198
StoreHandler(reg, name, handler) ==
  [reg EXCEPT !.subparser_map = Put(reg.subparser_map, name,
                                    Get(reg.name_parser_map, name)),
              !.handler_map = Put(reg.handler_map, name, handler)]

\* Shell.register_handler(name, handler, argument_set)
RegisterHandler(reg, name, handler, argument_set, conflict) ==
  IF AddParserRaises(reg, name, conflict)
  THEN [reg EXCEPT !.raised = "ArgumentError"]
  ELSE LET added == AddParser([reg EXCEPT !.raised = "None"], name)
       IN  IF Truthy(argument_set) /\ AddParserArgumentsRaises(argument_set)
           THEN [added EXCEPT !.raised = "SpecError"]
           ELSE StoreHandler(AddArguments(added, name, handler, argument_set),
                             name, handler)

\* the argument_set register_builtin_handlers hands to register_handler: the
\* ARG_SPEC is passed as the keyword `arguments`, which register_handler
\* collects in **kwargs, so argument_set keeps its default
BuiltinArgumentSet(arg_spec) == NoneArgs

\* Shell.register_builtin_handlers
RegisterBuiltinHandlers(reg) ==
  RegisterHandler(
    RegisterHandler(reg, HELP, "HelpAction", BuiltinArgumentSet(HelpArgSpec), FALSE),
    EXIT, "ExitAction", BuiltinArgumentSet(ExitArgSpec), FALSE)

\* the Shell after __init__
FreshShell == RegisterBuiltinHandlers(NewRegistry)

\* -------------------------------------------------------- input lines

SP == " "

\* the words a line is made of: command names, a value, the help flag and a
\* flag no parser declares
Words == {"help", "exit", "greet", "grep", "alice", "-h", "-x"}

\* argparse takes a token that starts with "-" and is longer than one
\* character for an option string
IsOptionString(tok) == tok \in {"-h", "-x"}

\* a word is one atom, so no two words are adjacent in a line
WellFormed(t) == \A i \in 1..(Len(t) - 1) : t[i] = SP \/ t[i + 1] = SP

Lines ==
  {t \in UNION {[1..n -> Words \cup {SP}] : n \in 0..MaxLineLen} : WellFormed(t)}

\* str.lstrip / str.rstrip / str.strip
RECURSIVE LStrip(_)
LStrip(t) == IF t # <<>> /\ Head(t) = SP THEN LStrip(Tail(t)) ELSE t

RECURSIVE RStrip(_)
RStrip(t) ==
  IF t # <<>> /\ t[Len(t)] = SP THEN RStrip(SubSeq(t, 1, Len(t) - 1)) ELSE t

Strip(t) == RStrip(LStrip(t))

\* str.split(' '): every single space ends a token, so two spaces in a row
\* enclose the empty token
RECURSIVE SplitFrom(_, _, _)
SplitFrom(t, done, cur) ==
  IF t = <<>> THEN Append(done, cur)
  ELSE IF Head(t) = SP THEN SplitFrom(Tail(t), Append(done, cur), "")
  ELSE SplitFrom(Tail(t), done, Head(t))

Split(t) == SplitFrom(t, <<>>, "")

\* ---------------------------------------------------- parser.parse_args

\* parse_args returns a Namespace or ends in SystemExit, after printing help
\* (code 0) or an error (code 2)
Parsed(ns) == [kind |-> "ok", detail |-> "None", ns |-> ns]

ParserExit(kind, detail) ==
  [kind |-> kind, detail |-> detail, ns |-> [command |-> "None"]]

Positionals(toks) == SelectSeq(toks, LAMBDA x : ~IsOptionString(x))

OptionStrings(toks) == SelectSeq(toks, IsOptionString)

\* a faulty variant of ParseSubcommand: leftover tokens are dropped, as
\* parse_known_args does
ParseSubcommandKnownArgs(rest, parser) ==
  LET pos  == Positionals(rest)
      args == parser.args
  IN  IF \E i \in 1..Len(rest) : rest[i] = "-h"
      THEN [kind |-> "help", detail |-> "help_command", fields |-> <<>>, extras |-> <<>>]
      ELSE IF \E i \in 1..Len(args) : i > Len(pos) /\ args[i].nargs = "one"
      THEN [kind |-> "error", detail |-> "required", fields |-> <<>>, extras |-> <<>>]
      ELSE [kind   |-> "ok",
            detail |-> "None",
            fields |-> [i \in 1..Len(args) |->
                          <<args[i].name,
                            IF i <= Len(pos) THEN pos[i] ELSE "None">>],
            extras |-> <<>>]

\* the tokens after the command name against the sub-parser: -h prints the
\* command's help; the positional tokens fill the arguments in order (an
\* optional argument comes last); an undeclared option string or a token
\* beyond the arguments is left over
ParseSubcommand(rest, parser) ==
  LET pos  == Positionals(rest)
      args == parser.args
  IN  IF \E i \in 1..Len(rest) : rest[i] = "-h"
      THEN [kind |-> "help", detail |-> "help_command", fields |-> <<>>, extras |-> <<>>]
      ELSE IF \E i \in 1..Len(args) : i > Len(pos) /\ args[i].nargs = "one"
      THEN [kind |-> "error", detail |-> "required", fields |-> <<>>, extras |-> <<>>]
      ELSE [kind   |-> "ok",
            detail |-> "None",
            fields |-> [i \in 1..Len(args) |->
                          <<args[i].name,
                            IF i <= Len(pos) THEN pos[i] ELSE "None">>],
            extras |-> OptionStrings(rest)
                       \o SubSeq(pos, Len(args) + 1, Len(pos))]

\* the Namespace: the command and one field for every argument
RECURSIVE Namespace(_, _)
Namespace(command, fields) ==
  IF fields = <<>> THEN [command |-> command]
  ELSE (fields[1][1] :> fields[1][2]) @@ Namespace(command, Tail(fields))

\* the top-level parser from token i on: -h prints the command list, an
\* undeclared option string is left over, the first other token names the
\* sub-parser that takes all tokens after it; anything left over is an error
RECURSIVE ParseFrom(_, _, _, _)
ParseFrom(toks, i, extras, npm) ==
  IF i > Len(toks)
  THEN IF extras # <<>> THEN ParserExit("error", "unrecognized")
       ELSE Parsed([command |-> "None"])
  ELSE IF toks[i] = "-h" THEN ParserExit("help", "help_all")
  ELSE IF IsOptionString(toks[i]) THEN ParseFrom(toks, i + 1, Append(extras, toks[i]), npm)
  ELSE IF ~Has(npm, toks[i]) THEN ParserExit("error", "invalid_choice")
  ELSE LET sub == ParseSubcommand(SubSeq(toks, i + 1, Len(toks)), Get(npm, toks[i]))
       IN  IF sub.kind # "ok" THEN ParserExit(sub.kind, sub.detail)
           ELSE IF extras \o sub.extras # <<>> THEN ParserExit("error", "unrecognized")
           ELSE Parsed(Namespace(toks[i], sub.fields))

ParseArgs(toks, npm) == ParseFrom(toks, 1, <<>>, npm)

\* ------------------------------------------------------------ handlers

\* exception classes: these derive from Exception ...
ExceptionClasses == {"ValueError", "KeyError", "AttributeError", "ArgumentError"}

\* ... and these only from BaseException
BaseOnlyClasses == {"SystemExit", "KeyboardInterrupt"}

\* a faulty variant of ExceptSystemExit: `except SystemError`
ExceptSystemError(cls) == cls = "SystemError"

\* `except SystemExit` (line 210)
ExceptSystemExit(cls) == cls = "SystemExit"

\* a faulty variant of ExceptException: `except KeyError`
ExceptKeyError(cls) == cls = "KeyError"

\* a faulty variant of ExceptException: `except BaseException`
ExceptBaseException(cls) == cls \in ExceptionClasses \cup BaseOnlyClasses

\* `except Exception` (line 222)
ExceptException(cls) == cls \in ExceptionClasses

Returns(value, help) == [kind |-> "return", value |-> value, help |-> help]

Raises(cls) == [kind |-> "raise", value |-> cls, help |-> "None"]

\* what a handler of the integrator may return: None, {} or a mapping with
\* entries
Results == {"None", "EmptyMapping", "Mapping"}

\* Shell.HelpAction.handle
HelpActionHandle(command_args, sm) ==
  IF "action" \notin DOMAIN command_args THEN {Raises("AttributeError")}
  ELSE IF command_args.action \notin {"None", ""}
  THEN IF Has(sm, command_args.action)
       THEN {Returns("None", command_args.action)}
       ELSE {Raises("KeyError")}
  ELSE {Returns("None", "parser")}

\* Shell.ExitAction.handle: exit() raises SystemExit
ExitActionHandle(command_args) == {Raises("SystemExit")}

\* a CommandHandler of the integrator: it returns a result or raises
UserHandle(command_args) ==
  {Returns(r, "None") : r \in Results}
    \cup {Raises("ValueError"), Raises("KeyboardInterrupt")}

\* handler.handle(command_args): the ways it can end
Handle(handler, command_args, sm) ==
  CASE handler = "HelpAction" -> HelpActionHandle(command_args, sm)
    [] handler = "ExitAction" -> ExitActionHandle(command_args)
    [] OTHER -> UserHandle(command_args)

\* `if result:` (line 217)
ResultTruthy(result) == result \notin {"None", "EmptyMapping"}

\* ------------------------------------------------------------ Shell.run

NoOutcome == [kind |-> "None", value |-> "None", help |-> "None"]

\* one iteration of the loop, as what it leaves behind
Iterated(toks, cs, out, rep, prn, next) ==
  [command_spec |-> toks, calls |-> cs, outcome |-> out, report |-> rep,
   printed |-> prn, pc |-> next]

\* lines 216-223 once handle() has ended with `out`, or the lookup of the
\* handler has
AfterHandle(toks, cs, out) ==
  IF out.kind = "raise"
  THEN IF ExceptException(out.value)
       THEN Iterated(toks, cs, out, "command_error", "nothing", "idle")
       ELSE Iterated(toks, cs, out, "none", "nothing", "terminated")
  ELSE Iterated(toks, cs, out, "none",
                IF ResultTruthy(out.value) THEN out.value ELSE "nothing", "idle")

\* a faulty variant of Dispatch: the handler is taken from the first entry of
\* handler_map instead of the entry of the command
DispatchFirstEntry(reg, toks, parsed_arguments) ==
  IF ~Has(reg.handler_map, parsed_arguments.command)
  THEN {AfterHandle(toks, <<>>, Raises("KeyError"))}
  ELSE LET handler == Get(reg.handler_map, reg.handler_map.keys[1])
       IN  {AfterHandle(toks, <<[handler |-> handler, args |-> parsed_arguments]>>, out) :
              out \in Handle(handler, parsed_arguments, reg.subparser_map)}

\* lines 213-223: self.handler_map[parsed_arguments.command].handle(...)
Dispatch(reg, toks, parsed_arguments) ==
  IF ~Has(reg.handler_map, parsed_arguments.command)
  THEN {AfterHandle(toks, <<>>, Raises("KeyError"))}
  ELSE LET handler == Get(reg.handler_map, parsed_arguments.command)
       IN  {AfterHandle(toks, <<[handler |-> handler, args |-> parsed_arguments]>>, out) :
              out \in Handle(handler, parsed_arguments, reg.subparser_map)}

\* lines 207-211: parse_args ended in SystemExit
AfterParserExit(toks, parsed) ==
  IF ExceptSystemExit("SystemExit")
  THEN Iterated(toks, <<>>, NoOutcome, parsed.detail, "nothing", "idle")
  ELSE Iterated(toks, <<>>, NoOutcome, parsed.detail, "nothing", "terminated")

\* `text.strip() == ''` (line 203)
IsBlank(t) == Strip(t) = <<>>

\* the body of the loop of Shell.run for the line t
Iteration(reg, t) ==
  IF IsBlank(t) THEN {Iterated(<<>>, <<>>, NoOutcome, "none", "nothing", "idle")}
  ELSE LET toks             == Split(Strip(t))
           parsed_arguments == ParseArgs(toks, reg.name_parser_map)
       IN  IF parsed_arguments.kind # "ok"
           THEN {AfterParserExit(toks, parsed_arguments)}
           ELSE Dispatch(reg, toks, parsed_arguments.ns)

\* ------------------------------------------------------- ShellCompleter

StartsWith(word, prefix) ==
  Len(prefix) <= Len(word) /\ SubSeq(word, 1, Len(prefix)) = prefix

\* WordCompleter(words).get_completions: the words that start with the text
\* before the cursor, in the order of the list
WordCompletions(words, word_before_cursor) ==
  SelectSeq(words, LAMBDA w : StartsWith(Chars(w), word_before_cursor))

\* ShellCompleter.get_completions for a text with no space in it:
\* NestedCompleter completes it as WordCompleter(list(options.keys()))
GetCompletions(options, word_before_cursor) ==
  WordCompletions(options.keys, word_before_cursor)

\* the texts completion is asked for: every prefix of a name, and a text
\* that starts no name
Partials ==
  UNION {{SubSeq(Chars(n), 1, k) : k \in 0..Len(Chars(n))} :
           n \in BuiltinNames \cup UserNames}
    \cup {<<24>>}

\* a completion request that ended with the candidates cands, and one that
\* ended in an exception
Yields(cands) == [out |-> Returns("None", "None"), candidates |-> cands]

Fails(cls) == [out |-> Raises(cls), candidates |-> <<>>]

\* the handlers that define get_completions of their own: HelpAction (lines
\* 255-262) and the integrator's h1; ExitAction and h2 inherit
\* CommandHandler.get_completions
Overrides(handler) == handler \in {"HelpAction", "h1"}

\* handler.get_completions(context) for an empty word: HelpAction offers the
\* keys of subparser_map, h1 a value of its own, and the inherited method
\* raises StopIteration (lines 41-42)
HandlerGetCompletions(handler, sm) ==
  IF ~Overrides(handler) THEN Fails("StopIteration")
  ELSE IF handler = "HelpAction" THEN Yields(sm.keys)
  ELSE Yields(<<"alice">>)

\* Shell.HandlerValueCompleter.get_completions
HandlerValueCompleterGetCompletions(handler, sm) ==
  HandlerGetCompletions(handler, sm)

\* ArgumentCompleter.get_completions for the first position after the
\* command name: the position is the first argument's, whose value completer
\* is the HandlerValueCompleter of the command
ArgumentCompleterGetCompletions(arg_comp, sm) ==
  IF arg_comp.args = <<>> THEN Yields(<<>>)
  ELSE HandlerValueCompleterGetCompletions(arg_comp.handler, sm)

\* a StopIteration raised inside the generator NestedCompleter.get_completions:
\* Python 3.7 and later turn it into RuntimeError (PEP 479), Python 3.6 ends
\* the generator
InGenerator(res) ==
  IF res.out = Raises("StopIteration")
  THEN {Fails("RuntimeError"), Yields(<<>>)}
  ELSE {res}

\* ShellCompleter.get_completions for the text "first_term ": NestedCompleter
\* hands what follows the first term to options.get(first_term), and offers
\* nothing when there is none
GetArgumentCompletions(options, first_term, sm) ==
  IF ~Has(options, first_term) THEN {Yields(<<>>)}
  ELSE InGenerator(ArgumentCompleterGetCompletions(Get(options, first_term), sm))

\* the command names completion is asked for with a separator after them
FirstTerms == BuiltinNames \cup UserNames

\* ------------------------------------------------------------- actions

Current ==
  Registry(handler_map, subparser_map, name_parser_map, choices_actions,
           description, nested)

NoRegCall ==
  [name |-> "None", handler |-> "None", argument_set |-> NoneArgs, raised |-> "None"]

SetRegistry(reg) ==
  /\ handler_map' = reg.handler_map
  /\ subparser_map' = reg.subparser_map
  /\ name_parser_map' = reg.name_parser_map
  /\ choices_actions' = reg.choices_actions
  /\ description' = reg.description
  /\ nested' = reg.nested

\* what the last operation left to observe
Observe(rc, t, it, p, cands) ==
  /\ reg_call' = rc
  /\ text' = t
  /\ command_spec' = it.command_spec
  /\ calls' = it.calls
  /\ outcome' = it.outcome
  /\ report' = it.report
  /\ printed' = it.printed
  /\ partial' = p
  /\ candidates' = cands

Nothing == Iterated(<<>>, <<>>, NoOutcome, "none", "nothing", "idle")

\* Shell(parser_config, prompt_config)
Init ==
  /\ conflict_raises \in BOOLEAN
  /\ handler_map = FreshShell.handler_map
  /\ subparser_map = FreshShell.subparser_map
  /\ name_parser_map = FreshShell.name_parser_map
  /\ choices_actions = FreshShell.choices_actions
  /\ description = FreshShell.description
  /\ nested = FreshShell.nested
  /\ pc = "idle"
  /\ op = "none"
  /\ raised_before = FALSE
  /\ reg_call = NoRegCall
  /\ key = "none"
  /\ text = <<>>
  /\ command_spec = <<>>
  /\ calls = <<>>
  /\ outcome = NoOutcome
  /\ report = "none"
  /\ printed = "nothing"
  /\ partial = <<>>
  /\ candidates = <<>>

\* shell.register_handler(name, handler, argument_set)
Register(name, handler, argument_set) ==
  /\ pc = "idle"
  /\ op = "none"
  /\ Len(choices_actions) < Cardinality(BuiltinNames) + MaxRegs
  /\ LET reg == RegisterHandler(Current, name, handler, argument_set, conflict_raises)
     IN  /\ SetRegistry(reg)
         /\ Observe([name |-> name, handler |-> handler,
                     argument_set |-> argument_set, raised |-> reg.raised],
                    <<>>, Nothing, <<>>, <<>>)
  /\ op' = "register"
  /\ key' = "none"
  /\ UNCHANGED <<conflict_raises, pc, raised_before>>

\* a faulty variant of Lookup: handler_map.pop(command), which takes the
\* entry out of the map
LookupPop(reg, it) ==
  IF it.calls = <<>> THEN reg
  ELSE LET command == it.calls[1].args.command
           hm      == reg.handler_map
       IN  [reg EXCEPT !.handler_map =
              [keys |-> SelectSeq(hm.keys, LAMBDA k : k # command),
               val  |-> [k \in (DOMAIN hm.val) \ {command} |-> hm.val[k]]]]

\* what an iteration leaves of the registry: the loop assigns no attribute of
\* the Shell, and handler_map[...] (line 216), subparser_map[...] (line 251),
\* parse_args and print_help only read
Lookup(reg, it) == reg

\* one iteration of Shell.run: prompt() returns the line t after the key k
Loop(t, k) ==
  /\ pc = "idle"
  /\ op = "none"
  /\ \E it \in Iteration(Current, t) :
       /\ Observe(NoRegCall, t, it, <<>>, <<>>)
       /\ SetRegistry(Lookup(Current, it))
       /\ pc' = it.pc
  /\ op' = "run"
  /\ key' = k
  /\ UNCHANGED <<conflict_raises, raised_before>>

\* the user commits the line t with enter (on_enter, lines 128-134)
Run(t) == Loop(t, "enter")

\* a faulty variant of OnCtrlC: event.app.exit() without a result, prompt()
\* returns None
OnCtrlCNoResult == <<>>

\* on_ctrl_c (lines 122-126): event.app.exit(result=BuiltinAction.EXIT.value)
\* makes prompt() return "exit", whatever the buffer holds
OnCtrlC == <<EXIT>>

\* the user presses Ctrl-C at the prompt
CtrlC == Loop(OnCtrlC, "ctrl_c")

\* the front end asks for the completions of the text p
Complete(p) ==
  /\ pc = "idle"
  /\ op = "none"
  /\ Observe(NoRegCall, <<>>, Nothing, p, GetCompletions(nested, p))
  /\ op' = "complete"
  /\ key' = "none"
  /\ UNCHANGED <<conflict_raises, registry, pc, raised_before>>

\* the front end asks for the completions of the text "n ": the name n and a
\* separator (0) after it
CompleteArgument(n) ==
  /\ pc = "idle"
  /\ op = "none"
  /\ \E res \in GetArgumentCompletions(nested, n, subparser_map) :
       Observe(NoRegCall, <<>>,
               Iterated(<<>>, <<>>, res.out, "none", "nothing", "idle"),
               Chars(n) \o <<0>>, res.candidates)
  /\ op' = "complete_argument"
  /\ key' = "none"
  /\ UNCHANGED <<conflict_raises, registry, pc, raised_before>>

\* control is back with the caller, for run in prompt() (line 202): what the
\* operation left is no longer observed
Resume ==
  /\ pc = "idle"
  /\ op # "none"
  /\ op' = "none"
  /\ key' = "none"
  /\ raised_before' =
       (raised_before \/ (op = "run" /\ calls # <<>> /\ outcome.kind = "raise"))
  /\ Observe(NoRegCall, <<>>, Nothing, <<>>, <<>>)
  /\ UNCHANGED <<conflict_raises, registry, pc>>

\* the inputs an operation can be given: none while the previous operation's
\* outcome is still being observed or after run has ended
AtRest == pc = "idle" /\ op = "none"
LinesRead == IF AtRest THEN Lines ELSE {}
PartialsTyped == IF AtRest THEN Partials ELSE {}
FirstTermsTyped == IF AtRest THEN FirstTerms ELSE {}

Next ==
  \/ \E name \in UserNames, handler \in UserHandlers, argument_set \in ArgumentSets :
       Register(name, handler, argument_set)
  \/ \E t \in LinesRead : Run(t)
  \/ CtrlC
  \/ \E p \in PartialsTyped : Complete(p)
  \/ \E n \in FirstTermsTyped : CompleteArgument(n)
  \/ Resume

Spec == Init /\ [][Next]_vars

\* -------------------------------------------------- the claims' terms

\* the tokens of the last submitted line
Tokens == command_spec

First == Tokens[1]

Rest == Tail(Tokens)

Submitted == op = "run" /\ command_spec # <<>>

\* n is a registered command
Registered(n) == Has(handler_map, n)

\* the argument spec of command n: the arguments of the sub-parser argparse
\* validates its lines against
SpecOf(n) == Get(name_parser_map, n).args

Required(args) == {i \in 1..Len(args) : args[i].nargs = "one"}

ValueTokens(toks) == {i \in 1..Len(toks) : ~IsOptionString(toks[i])}

\* the tokens are values only, one for every required argument and no more
\* than there are arguments
Satisfies(toks, args) ==
  /\ \A i \in 1..Len(toks) : ~IsOptionString(toks[i])
  /\ Cardinality(Required(args)) <= Len(toks)
  /\ Len(toks) <= Len(args)

\* a required argument is missing, a flag is unknown, or there are more
\* values than arguments
Violates(toks, args) ==
  \/ Cardinality(ValueTokens(toks)) < Cardinality(Required(args))
  \/ \E i \in 1..Len(toks) : IsOptionString(toks[i]) /\ toks[i] # "-h"
  \/ Cardinality(ValueTokens(toks)) > Len(args)

AsksForHelp(toks) == \E i \in 1..Len(toks) : toks[i] = "-h"

\* the argument object holds the command and the tokens, argument by argument
FieldsMatch(ns, command, toks, args) ==
  /\ DOMAIN ns = {"command"} \cup {args[i].name : i \in 1..Len(args)}
  /\ ns.command = command
  /\ \A i \in 1..Len(args) :
       ns[args[i].name] = (IF i <= Len(toks) THEN toks[i] ELSE "None")

\* the last iteration called handle() of exactly the handler of command n
InvokedOnce(n) ==
  /\ Len(calls) = 1
  /\ calls[1].handler = Get(handler_map, n)

ArgumentErrors == {"required", "unrecognized"}

ErrorReports == {"invalid_choice"} \cup ArgumentErrors

\* ---------------------------------------------------------------- C1

C2_Original ==
  (op = "run" /\ Len(calls) = 1 /\ calls[1].args.command # EXIT
      /\ outcome.kind = "raise")
    => (report = "command_error" /\ pc = "idle")

\* C2 as amended: an exception that derives from Exception, raised by the
\* handler of a command other than exit, is caught, reported as a command
\* error and leaves the loop running; and in a session where a handler has
\* raised, a later valid line is still dispatched to its handler.
C2_FailureIsolation ==
  /\ (op = "run" /\ Len(calls) = 1 /\ calls[1].args.command # EXIT
        /\ outcome.kind = "raise" /\ outcome.value \in ExceptionClasses)
       => (report = "command_error" /\ pc = "idle")
  /\ (Submitted /\ raised_before /\ Registered(First)
        /\ Satisfies(Rest, SpecOf(First)))
       => InvokedOnce(First)

C2_Witness ==
  /\ op = "run"
  /\ raised_before
  /\ Len(calls) = 1
  /\ calls[1].handler \in UserHandlers
  /\ outcome.kind = "return"

\* ---------------------------------------------------------------- C3

\* C3: a line whose first token is no registered command invokes no handler,
\* reports an error for the unknown command, and leaves the loop waiting for
\* the next line.
C3_Original ==
  (Submitted /\ ~Registered(First))
    => (calls = <<>> /\ report \in ErrorReports /\ pc = "idle")

\* ---------------------------------------------------------------- C4

C5_ExitTerminates ==
  [][/\ (op' = "run" /\ command_spec' = <<EXIT>>)
          => /\ Len(calls') = 1
             /\ calls'[1].handler = "ExitAction"
             /\ outcome' = Raises("SystemExit")
             /\ pc' = "terminated"
     /\ pc # "terminated"]_vars

C5_Witness ==
  /\ op = "run"
  /\ Tokens = <<EXIT>>
  /\ raised_before
  /\ Registered("greet")
  /\ pc = "terminated"

\* ---------------------------------------------------------------- C6

\* C6 as claimed: the loop ends only by dispatching the exit command.
C6_Original ==
  pc = "terminated"
    => (op = "run" /\ Len(calls) = 1 /\ calls[1].args.command = EXIT)

\* C6 as amended: the loop ends only when handle() of the dispatched handler
\* raises an exception that does not derive from Exception: the SystemExit
\* of ExitAction, or a SystemExit or KeyboardInterrupt raised inside another
\* command's handler. A blank line, a failed parse or validation, an unknown
\* command or a handler failure that derives from Exception never ends it.
C6_OnlyBaseExceptionTerminates ==
  /\ pc = "terminated"
       => /\ op = "run"
          /\ command_spec # <<>>
          /\ Registered(First)
          /\ InvokedOnce(First)
          /\ outcome.kind = "raise"
          /\ outcome.value \in BaseOnlyClasses
  /\ (op = "run" /\ (report # "none" \/ calls = <<>> \/ outcome.kind # "raise"))
       => pc = "idle"

C6_Witness ==
  /\ pc = "terminated"
  /\ Len(calls) = 1
  /\ calls[1].handler \in UserHandlers
  /\ outcome = Raises("KeyboardInterrupt")

\* ---------------------------------------------------------------- C7

\* the parser a registration with argument_set installs
Installs(argument_set) ==
  IF Truthy(argument_set) THEN argument_set.args ELSE <<>>

\* C7: register_handler for a name that is registered already succeeds and
\* replaces the entry: from then on the name is dispatched to the handler
\* given last and validated against the argument spec given last.
C7_Original ==
  [][(op' = "register" /\ Has(handler_map, reg_call'.name))
       => /\ reg_call'.raised = "None"
          /\ Get(handler_map', reg_call'.name) = reg_call'.handler
          /\ Get(name_parser_map', reg_call'.name).args
               = Installs(reg_call'.argument_set)]_vars

\* ---------------------------------------------------------------- C8

\* C8: a register_handler call that repeats the name, handler and argument
\* spec the registry already holds succeeds and leaves handler_map,
\* subparser_map, the parser's command list and the completion index as they
\* were after the first call.
C8_Original ==
  [][(/\ op' = "register"
      /\ Has(handler_map, reg_call'.name)
      /\ Get(handler_map, reg_call'.name) = reg_call'.handler
      /\ Get(subparser_map, reg_call'.name).args = Installs(reg_call'.argument_set)
      /\ Truthy(reg_call'.argument_set)
           => /\ Has(description, reg_call'.name)
              /\ Get(description, reg_call'.name)
                   = ArgumentCompleter(reg_call'.argument_set, reg_call'.handler))
       => (reg_call'.raised = "None" /\ registry' = registry)]_vars

\* ---------------------------------------------------------------- C9

\* the names of a sequence
Range(seq) == {seq[i] : i \in 1..Len(seq)}

\* C9: for a first token p with no separator after it, the command names
\* completion offers are exactly the registered names that start with p,
\* the registered names being every key of handler_map.
C9_Original ==
  op = "complete"
    => /\ Range(candidates)
            = {n \in DOMAIN handler_map.val : StartsWith(Chars(n), partial)}
       /\ Len(candidates) = Cardinality(Range(candidates))

\* --------------------------------------------------------------- C10

\* str order: by the first character that differs, a proper prefix first
RECURSIVE LexLess(_, _)
LexLess(a, b) ==
  IF b = <<>> THEN FALSE
  ELSE IF a = <<>> THEN TRUE
  ELSE IF Head(a) # Head(b) THEN Head(a) < Head(b)
  ELSE LexLess(Tail(a), Tail(b))

\* C10: the command names completion offers come in lexical order, whatever
\* the order the commands were registered in.
C10_Original ==
  op = "complete"
    => \A i, j \in 1..Len(candidates) :
         i < j => LexLess(Chars(candidates[i]), Chars(candidates[j]))

\* --------------------------------------------------------------- C11

\* the Shell is as __init__ left it: no register_handler call since
Fresh == Current = FreshShell

\* C11: in a freshly constructed Shell, for every registered name n the line
\* `help n` passes validation, calls HelpAction.handle once, which prints the
\* help of n's sub-parser, and reports no error.
C11_Original ==
  (op = "run" /\ Fresh /\ Len(Tokens) = 2 /\ Tokens[1] = HELP
      /\ Registered(Tokens[2]))
    => /\ Len(calls) = 1
       /\ calls[1].handler = "HelpAction"
       /\ outcome = Returns("None", Tokens[2])
       /\ report = "none"

\* --------------------------------------------------------------- C12

\* C12: in a freshly constructed Shell the bare line `help` calls
\* HelpAction.handle, which prints the full command list (parser.print_help),
\* and no command error is reported.
C12_Original ==
  (op = "run" /\ Fresh /\ Tokens = <<HELP>>)
    => /\ Len(calls) = 1
       /\ calls[1].handler = "HelpAction"
       /\ outcome = Returns("None", "parser")
       /\ report = "none"

\* --------------------------------------------------------------- C13

\* C13: a completion request never ends in an exception: for every registered
\* command, also one whose handler inherits CommandHandler.get_completions,
\* and every text, ShellCompleter.get_completions ends with a sequence of
\* candidates, which may be empty.
C13_Original ==
  op \in {"complete", "complete_argument"} => outcome.kind # "raise"

\* --------------------------------------------------------------- C14

\* C14: the completion index is never stale: for every registered name the
\* index serves the argument completer derived from the registration the
\* registry holds for it, the most recent one; a name whose most recent
\* registration had no argument spec, or an empty one, has no completer left
\* from an earlier registration.
C14_Original ==
  \A n \in DOMAIN handler_map.val :
    LET args == Get(subparser_map, n).args
    IN  IF args = <<>>
        THEN ~Has(nested, n)
        ELSE /\ Has(nested, n)
             /\ Get(nested, n)
                  = ArgumentCompleter([given |-> TRUE, args |-> args],
                                      Get(handler_map, n))

\* --------------------------------------------------------------- C15

\* the maximal runs of non-space characters of a line
WordsOf(t) == SelectSeq(t, LAMBDA a : a # SP)

\* the words with one space between neighbours
RECURSIVE SingleSpaced(_)
SingleSpaced(ws) ==
  IF Len(ws) <= 1 THEN ws ELSE <<ws[1], SP>> \o SingleSpaced(Tail(ws))

\* C15: the trimmed line is split at whitespace into its maximal runs of
\* non-space characters, so a line with extra spaces between its tokens has
\* the token list and the dispatch outcome (handler called, argument values,
\* report) of its single-space form.
C15_Original ==
  (op = "run" /\ ~IsBlank(text))
    => /\ command_spec = WordsOf(text)
       /\ Iterated(command_spec, calls, outcome, report, printed, pc)
            \in Iteration(Current, SingleSpaced(WordsOf(text)))

\* --------------------------------------------------------------- C16

\* C16: when handle() returns, its result is handed to the printer unchanged
\* whenever it is not None, an empty mapping included; nothing is printed
\* only when the result is None.
C16_Original ==
  (op = "run" /\ Len(calls) = 1 /\ outcome.kind = "return")
    => printed = (IF outcome.value = "None" THEN "nothing" ELSE outcome.value)

\* --------------------------------------------------------------- C17

\* C17: Ctrl-C at the prompt is the same as dispatching exit: prompt() returns
\* the line `exit`, run takes it through the ordinary dispatch (split, parse,
\* one handle() call of exit's handler), and the iteration ends as one of a
\* typed `exit` does in this registry: with SystemExit and the loop ended.
C17_CtrlCIsExit ==
  key = "ctrl_c"
    => /\ op = "run"
       /\ text = <<EXIT>>
       /\ command_spec = <<EXIT>>
       /\ calls = <<[handler |-> Get(handler_map, EXIT), args |-> [command |-> EXIT]]>>
       /\ Iterated(command_spec, calls, outcome, report, printed, pc)
            \in Iteration(Current, <<EXIT>>)
       /\ outcome = Raises("SystemExit")
       /\ pc = "terminated"

C17_Witness ==
  /\ key = "ctrl_c"
  /\ pc = "terminated"
  /\ raised_before
  /\ Registered("grep")

\* --------------------------------------------------------------- C18

\* C18: an iteration of run, whatever the line (blank, invalid, unknown,
\* failing or successful), leaves handler_map, subparser_map, the parser's
\* command set and the completer's description and nested index as they
\* were, and what it does is what the line does in that registry, whichever
\* lines were dispatched before.
C18_NoStateAcrossCommands ==
  [][op' = "run"
       => /\ registry' = registry
          /\ Iterated(command_spec', calls', outcome', report', printed', pc')
               \in Iteration(Current, text')]_vars

C18_Witness ==
  /\ op = "run"
  /\ raised_before
  /\ Has(description, "greet")
  /\ report = "invalid_choice"

\* --------------------------------------------------------------- C19

\* the keys of a dict
Keys(d) == DOMAIN d.val

\* C19: after every register_handler call, returned or raised while adding
\* the argument spec, the names the sub-parsers accept, the keys of
\* subparser_map and the keys of handler_map are one set, and no name
\* without a handler has a completer.
C19_Original ==
  /\ Keys(name_parser_map) = Keys(subparser_map)
  /\ Keys(subparser_map) = Keys(handler_map)
  /\ Keys(description) \subseteq Keys(handler_map)

====
